---- MODULE Spec2Model ----
(***************************************************************************)
(* The aim / targeting / combat loop of the App component: the target      *)
(* collection (enemiesRef), the floating texts (vfxRef), score and combo   *)
(* (gameState), the trigger edge flag, the detection rate limit, the       *)
(* delayed removal timers, the frame loop, the aim assist, the generated   *)
(* background and the teardown of the mount effect.                        *)
(*                                                                         *)
(* Numbers.  Lengths, distances and VFX life are fixed-point with three    *)
(* decimals: 15 scene units are 15000, the trigger threshold 0.06 is 60,   *)
(* a life of 1.0 is 1000.  A target flies along the line through its spawn *)
(* point and the origin (its velocity is -position normalised times the    *)
(* speed), so its position is the signed coordinate along that line and    *)
(* position.length() is the absolute value.                                *)
(*                                                                         *)
(* Directions are vectors <<x, y, z>>, fixed-point with two decimals: the  *)
(* unit vector straight ahead is <<0, 0, -100>>.                           *)
(*                                                                         *)
(* Rendering, audio and the hit flash are not state of this model.  React  *)
(* applies the functional updates of setGameState in the order they are    *)
(* queued, so gameState is the state with every queued update applied; a   *)
(* state setter called by the code is modelled as applied.                 *)
(***************************************************************************)
EXTENDS Integers, Sequences, FiniteSets, TLC

\* ---- program constants
ENEMY_COUNT == 4
SPAWN_RADIUS == 15000
SPEED_MIN == 50
SPEED_MAX == 120
DETECTION_FREQ_MS == 33
TRIGGER_THRESHOLD == 60
BOUND_RADIUS == 30000
REMOVAL_DELAY_MS == 100
VFX_LIFE == 1000
VFX_DECAY == 25
COMBO_STEP == 5
COMBO_BONUS == 50
AIM_ASSIST_STRENGTH == 40
ASSIST_COS2 == 9755

\* ---- bounds of the model
MaxFrames == 1
MaxShots == 2
MaxNow == 231
TimeStep == 33
MaxLog == 4
TriggerNow == 165
ComboShots == 6
ComboNow == 363
FlightFrames == 2
FlightLead == 0
VfxFrames == 41
MaxErrors == 2
MaxInFlight == 3
RateStep == 11
AimLog == 2

VARIABLES
  enemies,          \* enemiesRef.current: the target collection, in list order
  vfx,              \* vfxRef.current: the floating texts
  gameState,        \* the React state: score, combo, handDetected, loading
  isTriggeredRef,   \* the trigger edge flag
  lastDetectionRef, \* timestamp of the last processed detection result
  now,              \* Date.now()
  timers,           \* pending removal callbacks of handleShoot, in firing order
  nextId,           \* the next fresh id (ids are random strings, never reused)
  frames,           \* number of frame ticks so far
  outcomes,         \* history: the outcome of every fire signal, in order
  lastShot,         \* history: the ray and the hit index of the last fire signal
  ticks,            \* history: the first processed hand-present ticks
  aim,              \* laser and crosshair: the assisted direction and the flag
  aimInput,         \* history: the raw direction and the bearings of that tick
  errors,           \* history: the number of "Gesture processing error" logs
  bgImage,          \* the background: 0 is '', n the image of request n
  isGeneratingBg,   \* the generating indicator
  requests,         \* the generateContent calls in flight, in issue order
  issued,           \* history: the number of generateContent calls so far
  resolutions,      \* history: the settled requests, in the order they settled
  animationId,      \* the id of the last requestAnimationFrame of the effect
  rafPending,       \* the frame callbacks requested and not yet run or cancelled
  tornDown          \* the cleanup of the mount effect has run

bgVars == <<bgImage, isGeneratingBg, requests, issued, resolutions>>

aimVars == <<aim, aimInput>>

loopVars == <<animationId, rafPending, tornDown>>

vars == <<enemies, vfx, gameState, isTriggeredRef, lastDetectionRef, now,
          timers, nextId, frames, outcomes, lastShot, ticks, aim, aimInput,
          errors, bgImage, isGeneratingBg, requests, issued, resolutions,
          animationId, rafPending, tornDown>>

Abs(x) == IF x < 0 THEN -x ELSE x

Last(s) == s[Len(s)]

Ids(list) == {list[i].id : i \in 1..Len(list)}

\* ---- spawnEnemy

\* The random draws of one spawn, each Math.random() in percent: rand picks
\* the type, speed the base speed.  (The draws of the angle and of the height
\* place the spawn point on the spawn circle; the height, within 5 units of 0,
\* is taken as 0, so a target starts SPAWN_RADIUS from the origin.)
Rands == {5, 60}
SpeedRands == {0}
Draws == [rand : Rands, speed : SpeedRands]

\* Variant of Config: a draw on a band's upper edge falls in that band.
ConfigInclusive(rand) ==
  IF rand <= 10 THEN [speedMult |-> 13, points |-> 500, type |-> "phantom"]
  ELSE IF rand <= 25 THEN [speedMult |-> 18, points |-> 250, type |-> "racer"]
  ELSE IF rand <= 45 THEN [speedMult |-> 6, points |-> 150, type |-> "titan"]
  ELSE [speedMult |-> 10, points |-> 100, type |-> "normal"]

\* speedMult is in tenths.
Config(rand) ==
  IF rand < 10 THEN [speedMult |-> 13, points |-> 500, type |-> "phantom"]
  ELSE IF rand < 25 THEN [speedMult |-> 18, points |-> 250, type |-> "racer"]
  ELSE IF rand < 45 THEN [speedMult |-> 6, points |-> 150, type |-> "titan"]
  ELSE [speedMult |-> 10, points |-> 100, type |-> "normal"]

\* The field rand is history: the draw that picked the type.
NewEnemy(d, id) ==
  LET config == Config(d.rand)
      baseSpeed == SPEED_MIN + (d.speed * (SPEED_MAX - SPEED_MIN)) \div 100
      speed == (baseSpeed * config.speedMult) \div 10
  IN [id |-> id, pos |-> SPAWN_RADIUS, vel |-> -speed, isDying |-> FALSE,
      points |-> config.points, type |-> config.type, rand |-> d.rand]

spawnEnemy(list, d, id) == Append(list, NewEnemy(d, id))

\* Variant of RemoveId: nothing is removed.
RemoveNone(list, id) == list

\* enemiesRef.current.filter(e => e.id !== enemy.id)
RemoveId(list, id) == SelectSeq(list, LAMBDA e : e.id # id)

\* ---- initThree: ENEMY_COUNT calls of spawnEnemy, ids 1..ENEMY_COUNT

RECURSIVE initThree(_, _, _)
initThree(list, draws, i) ==
  IF i > ENEMY_COUNT THEN list
  ELSE initThree(spawnEnemy(list, draws[i], i), draws, i + 1)

\* The collection after n frame ticks in which no target was hit.
AfterFrames(list, n) ==
  [i \in 1..Len(list) |-> [list[i] EXCEPT !.pos = @ + n * list[i].vel]]

\* gameState as handleShoot reads it.  The mount effect has an empty
\* dependency list, so the onResults registered with the detector, and the
\* handleShoot it calls, are those of the first render: the gameState in their
\* scope is the initial one for the whole session.  (The functional updates
\* setGameState(prev => ...) do receive the current state.)
MountGameState ==
  [score |-> 0, combo |-> 0, handDetected |-> FALSE, loading |-> TRUE]

\* The isGeneratingBg in the scope of the generateBackground that the mount
\* effect, and the handleShoot of the first render, call: the initial false.
MountIsGeneratingBg == FALSE

\* The laser of initThree points along <<0, 0, -30>>.
Ahead == <<0, 0, -100>>

\* The number of frame ticks a target spawned with draw d stays within the
\* bounding radius: it flies from SPAWN_RADIUS through the origin to BOUND_RADIUS.
FramesInside(d) == (SPAWN_RADIUS + BOUND_RADIUS) \div (-NewEnemy(d, 0).vel)

\* A profile P bounds one specification: P.frames frame ticks, P.shots fire
\* signals, the clock up to P.now in steps of P.step, the fire signals up to
\* P.tail before the end of the clock, P.log logged ticks, P.errors logged
\* errors, the distances (P.dists), aims (P.aim), directions (P.raws) and
\* bearings of the targets (P.bearings) of the hand, the malformed results
\* (P.faults), the background requests in flight (P.inflight), which of them
\* settle (P.settle), how (P.replies) and whether at once (P.prompt), the
\* earliest time of the cleanup
\* (P.down), the draws of the startup spawns (P.init) and of the later ones
\* (P.draws) and
\* the numbers of shot-free frame ticks (P.start) that precede the initial
\* state: the initial states are those the program is in after mounting and
\* that many frame ticks, with no target hit or out of bounds yet.
Init(P) ==
  /\ \E n \in P.start, draws \in P.init :
       /\ enemies = AfterFrames(initThree(<<>>, draws, 1), n)
       /\ \A i \in 1..ENEMY_COUNT : Abs(enemies[i].pos) <= BOUND_RADIUS
  /\ vfx = <<>>
  /\ gameState = MountGameState
  /\ isTriggeredRef = FALSE
  /\ lastDetectionRef = 0
  /\ now = DETECTION_FREQ_MS
  /\ timers = <<>>
  /\ nextId = ENEMY_COUNT + 1
  /\ frames = 0
  /\ outcomes = <<>>
  /\ lastShot = [ray |-> {}, index |-> 0]
  /\ ticks = <<>>
  /\ aim = [final |-> Ahead, found |-> FALSE]
  /\ aimInput = [raw |-> Ahead, to |-> <<>>]
  /\ errors = 0
  /\ bgImage = 0
  /\ isGeneratingBg = FALSE
  /\ requests = <<>>
  /\ issued = 0
  /\ resolutions = <<>>
  /\ animationId = 1
  /\ rafPending = {1}
  /\ tornDown = FALSE

\* A profile with P.prompt lets the image service answer before anything else
\* happens: no other callback runs while a request is in flight.
Quiet(P) == P.prompt => requests = <<>>

\* ---- the clock
\* Date.now() moves on between callbacks, in steps of P.step.  It starts at
\* DETECTION_FREQ_MS: the epoch time is far beyond lastDetectionRef's initial 0,
\* so the first detection result is never dropped.

Advance(P) ==
  /\ Quiet(P)
  /\ now + P.step <= P.now
  /\ now' = now + P.step
  /\ UNCHANGED <<enemies, vfx, gameState, isTriggeredRef, lastDetectionRef,
                 timers, nextId, frames, outcomes, lastShot, ticks, aimVars,
                 errors, bgVars, loopVars>>

\* ---- generateBackground

\* How one generateContent call settles: a response with an inline image, a
\* response whose parts hold none, a failure (the promise rejects, or the
\* response has no candidates and the loop throws).
Replies == {"image", "none", "error"}

\* `data:image/png;base64,${base64Data}`: the image of a request is named by
\* the request.
Image(request) == request.n

\* The call up to its await.  context names the caller.  At most P.inflight
\* calls are in flight.
generateBackground(P, context) ==
  IF MountIsGeneratingBg
  THEN UNCHANGED bgVars
  ELSE /\ Len(requests) < P.inflight
       /\ isGeneratingBg' = TRUE
       /\ issued' = issued + 1
       /\ requests' = Append(requests, [n |-> issued + 1, context |-> context])
       /\ UNCHANGED <<bgImage, resolutions>>

\* Variant of applied: an image replaces only the image of an older request.
appliedNewest(image, request, reply) ==
  IF reply = "image" /\ Image(request) > image THEN Image(request) ELSE image

\* setBgImage, reached only in the loop over the parts of a response.
applied(image, request, reply) ==
  IF reply = "image" THEN Image(request) ELSE image

\* Variant of settled: the indicator is cleared only when a response arrived.
settledOnResponse(indicator, reply) ==
  IF reply = "error" THEN indicator ELSE FALSE

\* finally { setIsGeneratingBg(false) }
settled(indicator, reply) == FALSE

Without(list, i) ==
  [k \in 1..(Len(list) - 1) |-> IF k < i THEN list[k] ELSE list[k + 1]]

\* The rest of the call, after the await: any call in flight settles (P.settle
\* bounds which, as indexes of the calls in flight), whether or not the
\* cleanup has run.
ResolveBackground(P) ==
  /\ \E i \in P.settle \cap (1..Len(requests)), reply \in P.replies :
       /\ requests' = Without(requests, i)
       /\ bgImage' = applied(bgImage, requests[i], reply)
       /\ isGeneratingBg' = settled(isGeneratingBg, reply)
       /\ resolutions' = Append(resolutions, [n |-> requests[i].n, reply |-> reply])
  /\ UNCHANGED <<issued, enemies, vfx, gameState, isTriggeredRef,
                 lastDetectionRef, now, timers, nextId, frames, outcomes,
                 lastShot, ticks, aimVars, errors, loopVars>>

\* camera.start().then(...): the camera is up, the loading screen goes and the
\* first background is requested.  Detection results arrive only afterwards.
CameraStarted(P) ==
  /\ gameState.loading
  /\ gameState' = [gameState EXCEPT !.loading = FALSE]
  /\ generateBackground(P, "initial")
  /\ UNCHANGED <<enemies, vfx, isTriggeredRef, lastDetectionRef, now, timers,
                 nextId, frames, outcomes, lastShot, ticks, aimVars, errors,
                 loopVars>>

\* ---- handleShoot

\* enemiesRef.current.findIndex(e => raycaster.intersectObject(e.mesh).length > 0)
\* ray is the set of ids of the targets whose mesh the ray intersects; 0 is -1.
\* Variant of findIndex: the last intersected target instead of the first.
RECURSIVE findLastIndex(_, _, _)
findLastIndex(list, ray, i) ==
  IF i > Len(list) THEN 0
  ELSE LET rest == findLastIndex(list, ray, i + 1)
       IN IF rest # 0 THEN rest
          ELSE IF list[i].id \in ray THEN i ELSE 0

RECURSIVE findIndex(_, _, _)
findIndex(list, ray, i) ==
  IF i > Len(list) THEN 0
  ELSE IF list[i].id \in ray THEN i
  ELSE findIndex(list, ray, i + 1)

comboBonus(gs) == (gs.combo \div COMBO_STEP) * COMBO_BONUS

totalPoints(enemy) == enemy.points + comboBonus(MountGameState)

\* Variant of HitState: the combo is set to 1 instead of incremented.
HitStateFlat(prev, total) ==
  [prev EXCEPT !.score = prev.score + total, !.combo = 1]

HitState(prev, total) ==
  [prev EXCEPT !.score = prev.score + total, !.combo = prev.combo + 1]

\* Variant of MissState: the combo is kept.
MissStateKept(prev) == prev

MissState(prev) == [prev EXCEPT !.combo = 0]

HitVfx(items, total, frame) ==
  Append(items, [text |-> "+", points |-> total, life |-> VFX_LIFE, born |-> frame])

\* Variant of MissVfx: no floating text on a miss.
MissVfxNone(items, frame) == items

MissVfx(items, frame) ==
  Append(items, [text |-> "MISS", points |-> 0, life |-> VFX_LIFE, born |-> frame])

\* new THREE.Raycaster(origin, direction) against the meshes: the ray intersects
\* any MaxRayHits or fewer of the listed targets, among those the profile lets
\* the hand aim at (P.aim, as indexes of the collection).
MaxRayHits == 2
Rays(P, list) ==
  {r \in SUBSET {list[i].id : i \in P.aim \cap (1..Len(list))} :
     Cardinality(r) <= MaxRayHits}

\* gs is gameState with the updates queued before the call applied.
shoot(P, gs, ray) ==
  LET hitEnemyIndex == findIndex(enemies, ray, 1)
  IN /\ lastShot' = [ray |-> ray, index |-> hitEnemyIndex]
     /\ IF hitEnemyIndex # 0
        THEN LET enemy == enemies[hitEnemyIndex]
             IN /\ enemies' = [enemies EXCEPT ![hitEnemyIndex].isDying = TRUE]
                /\ gameState' = HitState(gs, totalPoints(enemy))
                /\ vfx' = HitVfx(vfx, totalPoints(enemy), frames)
                /\ timers' = Append(timers, [id |-> enemy.id,
                                             due |-> now + REMOVAL_DELAY_MS])
                /\ outcomes' = Append(outcomes, "hit")
                /\ generateBackground(P, "hit")
        ELSE /\ gameState' = MissState(gs)
             /\ vfx' = MissVfx(vfx, frames)
             /\ outcomes' = Append(outcomes, "miss")
             /\ generateBackground(P, "miss")
             /\ UNCHANGED <<enemies, timers>>

handleShoot(P, gs) == \E ray \in Rays(P, enemies) : shoot(P, gs, ray)

\* The removal callback scheduled by a hit: setTimeout(..., 100).  It runs at
\* or after its due time; callbacks of equal delay run in the order scheduled.
RemovalTimer(P) ==
  /\ Quiet(P)
  /\ timers # <<>>
  /\ now >= Head(timers).due
  /\ \E d \in P.draws :
       enemies' = spawnEnemy(RemoveId(enemies, Head(timers).id), d, nextId)
  /\ nextId' = nextId + 1
  /\ timers' = Tail(timers)
  /\ UNCHANGED <<vfx, gameState, isTriggeredRef, lastDetectionRef, now, frames,
                 outcomes, lastShot, ticks, aimVars, errors, bgVars, loopVars>>

\* ---- the aim assist

Dot(a, b) == a[1] * b[1] + a[2] * b[2] + a[3] * b[3]

\* a.angleTo(b) < AIM_ASSIST_RADIUS * (Math.PI / 180) * 6, an angle of 9
\* degrees: the cosine of the angle is above that of 9 degrees, compared as
\* squares, ASSIST_COS2 being the square of cos(9 degrees) in 1/10000.
Within(a, b) ==
  /\ Dot(a, b) > 0
  /\ Dot(a, b) * Dot(a, b) > ((Dot(a, a) * Dot(b, b)) \div 10000) * ASSIST_COS2

\* a.lerp(b, AIM_ASSIST_STRENGTH): a + (b - a) * 0.4, each component rounded
\* down to the fixed point.
lerp(a, b) ==
  [k \in 1..3 |-> a[k] + ((b[k] - a[k]) * AIM_ASSIST_STRENGTH) \div 100]

\* Variant of assist: once a target has pulled, no other does.
assistOnce(a, enemy, toEnemy) ==
  IF enemy.isDying \/ a.found THEN a
  ELSE IF Within(a.final, toEnemy)
       THEN [final |-> lerp(a.final, toEnemy), found |-> TRUE]
       ELSE a

\* The body of the forEach: a is finalAimDir and targetFound so far.
assist(a, enemy, toEnemy) ==
  IF enemy.isDying THEN a
  ELSE IF Within(a.final, toEnemy)
       THEN [final |-> lerp(a.final, toEnemy), found |-> TRUE]
       ELSE a

RECURSIVE aimAssist(_, _, _, _)
aimAssist(list, to, i, a) ==
  IF i > Len(list) THEN a
  ELSE aimAssist(list, to, i + 1, assist(a, list[i], to[i]))

\* ---- onResults

\* A detection result.  kind "none" lists no hand; kind "hand" lists a hand
\* with its thumb-to-index distance (dist), the direction index base to index
\* tip (raw) and, for each listed target by index, the direction from the
\* index base to it (to).  The other kinds are malformed: "null" is no result
\* object, "points" a hand whose index landmarks are missing, "thumb" a hand
\* whose thumb tip is missing.
Results(P, list) ==
  {[kind |-> "none", dist |-> 0, raw |-> Ahead, to |-> <<>>]}
    \cup [kind : {"hand"}, dist : P.dists, raw : P.raws,
          to : [1..Len(list) -> P.bearings]]
    \cup [kind : P.faults \cap {"null", "points"}, dist : {0}, raw : {Ahead},
          to : {<<>>}]
    \cup [kind : P.faults \cap {"thumb"}, dist : {0}, raw : P.raws,
          to : [1..Len(list) -> P.bearings]]

\* Variant of Dropped: half the interval is enough.
DroppedBriefly(t, last) == t - last < DETECTION_FREQ_MS \div 2

\* now - lastDetectionRef.current < DETECTION_FREQ_MS
Dropped(t, last) == t - last < DETECTION_FREQ_MS

\* Variant of Pinched: only half the threshold counts as pinched.
PinchedFirmly(dist) == dist < TRIGGER_THRESHOLD \div 2

\* Variant of Pinched: at the threshold counts as pinched.
PinchedOrTouching(dist) == dist <= TRIGGER_THRESHOLD

Pinched(dist) == dist < TRIGGER_THRESHOLD

SetHandDetected(prev, b) ==
  IF prev.handDetected = b THEN prev ELSE [prev EXCEPT !.handDetected = b]

\* History: the first P.log processed hand-present ticks, each with its
\* distance, the edge flag it found and whether it called handleShoot.
Logged(P, dist, fired) ==
  IF Len(ticks) < P.log
  THEN Append(ticks, [dist |-> dist, flag |-> isTriggeredRef, fired |-> fired])
  ELSE ticks

\* Lines 297-323: the assist, the crosshair and the laser.
aimed(results) ==
  /\ aim' = aimAssist(enemies, results.to, 1,
                      [final |-> results.raw, found |-> FALSE])
  /\ aimInput' = [raw |-> results.raw, to |-> results.to]

\* Lines 325-334: the trigger.
trigger(P, results) ==
  IF Pinched(results.dist)
  THEN IF ~isTriggeredRef
       THEN /\ Len(outcomes) < P.shots
            /\ now + P.tail <= P.now
            /\ isTriggeredRef' = TRUE
            /\ handleShoot(P, SetHandDetected(gameState, TRUE))
            /\ ticks' = Logged(P, results.dist, TRUE)
       ELSE /\ gameState' = SetHandDetected(gameState, TRUE)
            /\ ticks' = Logged(P, results.dist, FALSE)
            /\ UNCHANGED <<enemies, vfx, isTriggeredRef, timers, outcomes,
                           lastShot, bgVars>>
  ELSE /\ isTriggeredRef' = FALSE
       /\ gameState' = SetHandDetected(gameState, TRUE)
       /\ ticks' = Logged(P, results.dist, FALSE)
       /\ UNCHANGED <<enemies, vfx, timers, outcomes, lastShot, bgVars>>

\* The catch: the error is logged (at most P.errors are).
caught(P) ==
  /\ errors < P.errors
  /\ errors' = errors + 1

onResults(P, results) ==
  IF Dropped(now, lastDetectionRef)
  THEN UNCHANGED vars
  ELSE /\ lastDetectionRef' = now
       /\ UNCHANGED <<now, nextId, frames, loopVars>>
       /\ CASE results.kind = "hand" ->
                 /\ aimed(results)
                 /\ trigger(P, results)
                 /\ UNCHANGED errors
            [] results.kind = "none" ->
                 /\ gameState' = SetHandDetected(gameState, FALSE)
                 /\ UNCHANGED <<enemies, vfx, isTriggeredRef, timers, outcomes,
                                lastShot, ticks, aimVars, errors, bgVars>>
            [] results.kind = "null" ->
                 \* results.multiHandLandmarks throws
                 /\ caught(P)
                 /\ UNCHANGED <<enemies, vfx, gameState, isTriggeredRef, timers,
                                outcomes, lastShot, ticks, aimVars, bgVars>>
            [] results.kind = "points" ->
                 \* indexBase.x throws, after the update of handDetected
                 /\ gameState' = SetHandDetected(gameState, TRUE)
                 /\ caught(P)
                 /\ UNCHANGED <<enemies, vfx, isTriggeredRef, timers, outcomes,
                                lastShot, ticks, aimVars, bgVars>>
            [] results.kind = "thumb" ->
                 \* thumbTip.x throws, after the assist and before the trigger
                 /\ gameState' = SetHandDetected(gameState, TRUE)
                 /\ aimed(results)
                 /\ caught(P)
                 /\ UNCHANGED <<enemies, vfx, isTriggeredRef, timers, outcomes,
                                lastShot, ticks, bgVars>>

\* hands.onResults(onResults): the detector calls back with each result,
\* once the camera feeds it and until it is closed.
OnResults(P) ==
  /\ Quiet(P)
  /\ ~gameState.loading
  /\ ~tornDown
  /\ \E results \in Results(P, enemies) : onResults(P, results)

\* ---- animate

\* Variant of OutOfBounds: the signed coordinate instead of the length.
OutOfBoundsAhead(e) == e.pos > BOUND_RADIUS

OutOfBounds(e) == Abs(e.pos) > BOUND_RADIUS

\* Variant of Moved: a dying target moves too.
MovedAlways(e) == [e EXCEPT !.pos = e.pos + e.vel]

\* if (!enemy.isDying) enemy.mesh.position.add(enemy.velocity)
Moved(e) == IF e.isDying THEN e ELSE [e EXCEPT !.pos = e.pos + e.vel]

\* enemy.mesh.position.add(...) changes the target object itself, wherever
\* it is listed.
Mutate(list, e) ==
  [k \in 1..Len(list) |-> IF list[k].id = e.id THEN e ELSE list[k]]

\* enemiesRef.current.forEach(...): the loop runs over the array it started
\* on (old) while the body replaces enemiesRef.current (cur).
RECURSIVE forEachEnemy(_, _, _, _, _)
forEachEnemy(old, i, cur, draws, id) ==
  IF i > Len(old) THEN cur
  ELSE LET enemy == Moved(old[i])
       IN IF OutOfBounds(enemy)
          THEN forEachEnemy(old, i + 1,
                            spawnEnemy(RemoveId(Mutate(cur, enemy), enemy.id),
                                       Head(draws), id),
                            Tail(draws), id + 1)
          ELSE forEachEnemy(old, i + 1, Mutate(cur, enemy), draws, id)

Leaving(list) == {i \in 1..Len(list) : OutOfBounds(Moved(list[i]))}

\* Variant of Expired: a life of exactly 0 is kept.
ExpiredBelow(v) == v.life < 0

Expired(v) == v.life <= 0

ageVfx(items) ==
  SelectSeq([k \in 1..Len(items) |-> [items[k] EXCEPT !.life = @ - VFX_DECAY]],
            LAMBDA v : ~Expired(v))

\* animate: the callback of a pending requestAnimationFrame runs; its first
\* statement requests the next one and keeps the id in animationId.
Frame(P) ==
  /\ Quiet(P)
  /\ frames < P.frames
  /\ frames' = frames + 1
  /\ \E id \in rafPending :
       rafPending' = (rafPending \ {id}) \cup {animationId + 1}
  /\ animationId' = animationId + 1
  /\ tornDown' = tornDown
  /\ \E draws \in [1..Cardinality(Leaving(enemies)) -> P.draws] :
       enemies' = forEachEnemy(enemies, 1, enemies, draws, nextId)
  /\ nextId' = nextId + Cardinality(Leaving(enemies))
  /\ vfx' = ageVfx(vfx)
  /\ UNCHANGED <<gameState, isTriggeredRef, lastDetectionRef, now, timers,
                 outcomes, lastShot, ticks, aimVars, errors, bgVars>>

\* ---- the cleanup of the mount effect

\* Variant of Cancelled: the request before the last one is cancelled.
CancelledBefore(pending, id) == pending \ {id - 1}

\* cancelAnimationFrame(animationId)
Cancelled(pending, id) == pending \ {id}

\* The cleanup cancels the pending frame and closes the detector
\* (hands.close()); the removal timers, the camera promise and the background
\* requests are left as they are.  It runs no earlier than P.down on the clock.
Cleanup(P) ==
  /\ Quiet(P)
  /\ ~tornDown
  /\ now >= P.down
  /\ tornDown' = TRUE
  /\ rafPending' = Cancelled(rafPending, animationId)
  /\ UNCHANGED <<animationId, enemies, vfx, gameState, isTriggeredRef,
                 lastDetectionRef, now, timers, nextId, frames, outcomes,
                 lastShot, ticks, aimVars, errors, bgVars>>

\* ---- specifications

NextP(P) ==
  \/ Advance(P)
  \/ CameraStarted(P)
  \/ OnResults(P)
  \/ RemovalTimer(P)
  \/ Frame(P)
  \/ ResolveBackground(P)
  \/ Cleanup(P)

Phantom == [rand |-> 5, speed |-> 0]
Normal == [rand |-> 60, speed |-> 0]

Startup == {<<Normal, Phantom, Normal, Phantom>>}

\* A direction no assist reaches from straight ahead.
Away == <<0, 0, 100>>

\* What a profile holds besides its bounds, unless it says otherwise: the clock
\* in steps of TimeStep, a hand pointing straight ahead with every target
\* behind it, well-formed results, each background request answered with an
\* image before anything else happens.
Plain == [step |-> TimeStep, tail |-> 0, inflight |-> 1, settle |-> {1},
          replies |-> {"image"}, prompt |-> TRUE, faults |-> {}, errors |-> 0,
          raws |-> {Ahead}, bearings |-> {Away}, draws |-> Draws]

\* Two fire signals at any aim, a frame tick.
Combat == [frames |-> MaxFrames, shots |-> MaxShots, now |-> MaxNow, log |-> 0,
           start |-> {0}, dists |-> {30, 80}, aim |-> 1..(ENEMY_COUNT + MaxShots),
           init |-> Startup, down |-> MaxNow] @@ Plain

Next == NextP(Combat)

Spec == Init(Combat) /\ [][Next]_vars

\* The trigger: MaxLog logged ticks at distances below, at and above the
\* threshold.
Trigger == [frames |-> MaxFrames, shots |-> MaxShots, now |-> TriggerNow,
            log |-> MaxLog, start |-> {0}, dists |-> {30, 60, 80}, aim |-> {1},
            init |-> Startup, down |-> TriggerNow] @@ Plain

NextTrigger == NextP(Trigger)

SpecTrigger == Init(Trigger) /\ [][NextTrigger]_vars

\* A long streak: ComboShots fire signals aimed at the first target or at none.
Combo == [frames |-> MaxFrames, shots |-> ComboShots, now |-> ComboNow, log |-> 0,
          start |-> {0}, dists |-> {30, 80}, aim |-> {1}, init |-> Startup,
          down |-> ComboNow] @@ Plain

NextCombo == NextP(Combo)

SpecCombo == Init(Combo) /\ [][NextCombo]_vars

\* The end of a flight: the initial states include the one FlightLead frame
\* ticks before the phantoms leave the bounding radius.
Flight == [frames |-> FlightFrames, shots |-> 1, now |-> TriggerNow, log |-> 0,
           start |-> {0, FramesInside(Phantom) - FlightLead},
           dists |-> {30, 80}, aim |-> 1..ENEMY_COUNT, init |-> Startup,
           down |-> TriggerNow] @@ Plain

NextFlight == NextP(Flight)

SpecFlight == Init(Flight) /\ [][NextFlight]_vars

\* The life of a floating text: one fire signal and VfxFrames frame ticks, the
\* clock in steps of the removal delay.
Vfx == [frames |-> VfxFrames, shots |-> 1, now |-> TriggerNow, log |-> 0,
        start |-> {0}, dists |-> {30}, aim |-> {1}, init |-> Startup,
        down |-> REMOVAL_DELAY_MS, step |-> REMOVAL_DELAY_MS] @@ Plain

NextVfx == NextP(Vfx)

SpecVfx == Init(Vfx) /\ [][NextVfx]_vars

\* Malformed results: every kind of them among the results, MaxErrors of them
\* logged, every processed hand-present tick logged.
Faults == [frames |-> MaxFrames, shots |-> 1, now |-> TriggerNow,
           log |-> MaxLog + 1, start |-> {0}, dists |-> {20, 50, 80},
           aim |-> {1}, init |-> Startup, down |-> TriggerNow,
           faults |-> {"null", "points", "thumb"}, errors |-> MaxErrors] @@ Plain

NextFaults == NextP(Faults)

SpecFaults == Init(Faults) /\ [][NextFaults]_vars

\* The background: up to MaxInFlight requests in flight, settling in any order
\* and in every way, at any time; the cleanup at any time.
Background == [frames |-> MaxFrames, shots |-> MaxShots, now |-> TriggerNow,
               log |-> 0, start |-> {0}, dists |-> {30, 80}, aim |-> {1},
               init |-> Startup, down |-> 0, inflight |-> MaxInFlight,
               settle |-> 1..MaxInFlight, replies |-> Replies,
               prompt |-> FALSE] @@ Plain

NextBackground == NextP(Background)

SpecBackground == Init(Background) /\ [][NextBackground]_vars

\* The delayed removal: every fire signal early enough for its removal
\* callback to come due on the clock, the background left to settle whenever.
Removal == [frames |-> MaxFrames, shots |-> MaxShots, now |-> MaxNow + TimeStep,
            log |-> 0, start |-> {0}, dists |-> {30, 80}, aim |-> {1},
            init |-> Startup, down |-> 0, tail |-> REMOVAL_DELAY_MS + TimeStep,
            inflight |-> MaxShots + 1, prompt |-> FALSE] @@ Plain

NextRemoval == NextP(Removal)

\* The clock moves on and the event loop runs a timer callback that is due.
SpecRemoval ==
  /\ Init(Removal)
  /\ [][NextRemoval]_vars
  /\ WF_vars(Advance(Removal))
  /\ WF_vars(RemovalTimer(Removal))

\* The rate limit: the clock in steps of RateStep, finer than the detection
\* interval, so results arrive at every gap around it.
Rate == [frames |-> MaxFrames, shots |-> 1, now |-> TriggerNow, log |-> 0,
         start |-> {0}, dists |-> {30, 80}, aim |-> {1}, init |-> Startup,
         down |-> TriggerNow, step |-> RateStep] @@ Plain

NextRate == NextP(Rate)

SpecRate == Init(Rate) /\ [][NextRate]_vars

\* Unit directions 5.8 and 11 degrees to the right of straight ahead: Near is
\* within the assist angle of Ahead, Far is not.
Near == <<10, 0, -99>>
Far == <<19, 0, -98>>

\* The aim assist: each target behind the hand, near the aim or far from it;
\* one fire signal, AimLog logged ticks, the clock in steps of the removal
\* delay.
Aim == [frames |-> MaxFrames, shots |-> 1, now |-> TriggerNow, log |-> AimLog,
        start |-> {0}, dists |-> {30}, aim |-> {1}, init |-> Startup,
        down |-> REMOVAL_DELAY_MS, step |-> REMOVAL_DELAY_MS,
        bearings |-> {Away, Near, Far}] @@ Plain

NextAim == NextP(Aim)

SpecAim == Init(Aim) /\ [][NextAim]_vars

\* The draws on both sides of every band edge and at both ends of the range.
BandRands == {0, 9, 10, 24, 25, 44, 45, 99}

Edge(rand) == [rand |-> rand, speed |-> 0]

\* The spawner: startup and later spawns drawn at the band edges, one fire
\* signal, the clock in steps of the removal delay.
Spawn == [frames |-> MaxFrames, shots |-> 1, now |-> TriggerNow, log |-> 0,
          start |-> {0}, dists |-> {30}, aim |-> {1},
          init |-> {<<Edge(9), Edge(10), Edge(24), Edge(25)>>,
                    <<Edge(44), Edge(45), Edge(0), Edge(99)>>},
          down |-> REMOVAL_DELAY_MS, step |-> REMOVAL_DELAY_MS,
          draws |-> [rand : BandRands, speed : SpeedRands]] @@ Plain

NextSpawn == NextP(Spawn)

SpecSpawn == Init(Spawn) /\ [][NextSpawn]_vars

\* ---- steps, as the claims name them

\* A fire signal was handled in this step.
FireStep == Len(outcomes') = Len(outcomes) + 1

\* The targets a ray intersects, as indexes of the collection.
Intersected(list, ray) == {i \in 1..Len(list) : list[i].id \in ray}

\* The number of hits since the last miss.
RECURSIVE TrailingHits(_)
TrailingHits(log) ==
  IF log = <<>> \/ Last(log) = "miss" THEN 0
  ELSE 1 + TrailingHits(SubSeq(log, 1, Len(log) - 1))

\* ---- claims

\* C1: in every reachable state the collection holds exactly ENEMY_COUNT
\* targets, dying or not.
PopulationConstant == Len(enemies) = ENEMY_COUNT

\* C2: the trigger is edge-triggered.  Of the logged ticks (processed, hand
\* present), a tick fires exactly when its distance is below the threshold and
\* the edge flag is false at that moment; the flag is true exactly after a tick
\* below the threshold, so of consecutive ticks below it only the first fires;
\* and every fire signal is one of these ticks.
EdgeTriggered ==
  /\ \A k \in 1..Len(ticks) :
       /\ ticks[k].fired <=> (ticks[k].dist < TRIGGER_THRESHOLD /\ ~ticks[k].flag)
       /\ ticks[k].flag <=> (k > 1 /\ ticks[k - 1].dist < TRIGGER_THRESHOLD)
  /\ Len(ticks) < MaxLog =>
       Cardinality({k \in 1..Len(ticks) : ticks[k].fired}) = Len(outcomes)

\* C2 witness: the distances 0.03, 0.03, 0.08, 0.03 have fired on ticks 1 and 4.
EdgeTriggeredReached ==
  /\ Len(ticks) = 4
  /\ [k \in 1..4 |-> ticks[k].dist] = <<30, 30, 80, 30>>
  /\ [k \in 1..4 |-> ticks[k].fired] = <<TRUE, FALSE, FALSE, TRUE>>
  /\ Len(outcomes) = 2

\* C3: a target flagged dying is never selected by a later fire signal, so no
\* fire signal schedules a removal for a target that is already dying.
DyingNeverHitAgain ==
  [][FireStep =>
       \A i \in 1..Len(enemies) :
         enemies[i].isDying =>
           \/ timers' = timers
           \/ Last(timers').id # enemies[i].id]_vars

\* C4: a hit at combo c on a target worth p adds p + floor(c / 5) * 50 to the
\* score and takes the combo to c + 1.
BonusFromCurrentCombo ==
  [][FireStep =>
       LET I == Intersected(enemies, lastShot'.ray)
       IN I # {} =>
            LET m == CHOOSE i \in I : \A j \in I : i <= j
            IN /\ gameState'.score =
                    gameState.score + enemies[m].points
                      + (gameState.combo \div COMBO_STEP) * COMBO_BONUS
               /\ gameState'.combo = gameState.combo + 1]_vars

\* C5: a fire signal whose ray intersects several targets hits the one with the
\* lowest index: it alone is flagged dying, rewarded and scheduled for removal,
\* and every other target is left as it was.
FirstMatch ==
  [][FireStep =>
       LET I == Intersected(enemies, lastShot'.ray)
       IN I # {} =>
            LET m == CHOOSE i \in I : \A j \in I : i <= j
            IN /\ enemies'[m].isDying
               /\ \A j \in 1..Len(enemies) : j # m => enemies'[j] = enemies[j]
               /\ Len(enemies') = Len(enemies)
               /\ gameState'.score = gameState.score + totalPoints(enemies[m])
               /\ timers' = Append(timers, [id |-> enemies[m].id,
                                            due |-> now + REMOVAL_DELAY_MS])]_vars

\* C5 witness: a ray through two listed targets has hit the first and left the
\* second alive.
FirstMatchReached ==
  \E i, j \in 1..Len(enemies) :
    /\ i < j
    /\ lastShot.ray = {enemies[i].id, enemies[j].id}
    /\ enemies[i].isDying
    /\ ~enemies[j].isDying
    /\ outcomes = <<"hit">>

HitEffect ==
  /\ \E i \in 1..Len(enemies) : enemies' = [enemies EXCEPT ![i].isDying = TRUE]
  /\ gameState'.score > gameState.score
  /\ gameState'.combo = gameState.combo + 1
  /\ Len(vfx') = Len(vfx) + 1
  /\ SubSeq(vfx', 1, Len(vfx)) = vfx
  /\ Last(vfx').text = "+"
  /\ Last(vfx').life = VFX_LIFE

MissEffect ==
  /\ enemies' = enemies
  /\ timers' = timers
  /\ gameState'.score = gameState.score
  /\ gameState'.combo = 0
  /\ Len(vfx') = Len(vfx) + 1
  /\ SubSeq(vfx', 1, Len(vfx)) = vfx
  /\ Last(vfx').text = "MISS"
  /\ Last(vfx').life = VFX_LIFE

\* C6: every fire signal has exactly one outcome: the effects of a hit or the
\* effects of a miss, never both and never neither.
HitXorMiss == [][FireStep => (HitEffect /\ ~MissEffect) \/ (MissEffect /\ ~HitEffect)]_vars

\* C6 witness: both outcomes have happened, each leaving its floating text.
HitXorMissReached ==
  /\ outcomes = <<"miss", "hit">>
  /\ Len(vfx) = 2
  /\ vfx[1].text = "MISS"
  /\ vfx[2].text = "+"

\* C7: a fire signal whose ray intersects no target leaves the combo at 0 and
\* the score unchanged, whatever the combo was.
MissResetsCombo ==
  [][FireStep /\ Intersected(enemies, lastShot'.ray) = {} =>
       /\ gameState'.combo = 0
       /\ gameState'.score = gameState.score]_vars

\* C7 witness: a miss after a hit has taken the combo from 1 to 0.
MissResetsComboReached ==
  /\ outcomes = <<"hit", "miss">>
  /\ lastShot.ray = {}
  /\ gameState.combo = 0
  /\ gameState.score > 0

\* C8: the combo is the number of hits since the last miss in every state; the
\* score never decreases and changes only on a hit; the combo changes only on a
\* fire signal.
ComboIsStreak ==
  /\ [](gameState.combo = TrailingHits(outcomes))
  /\ [][/\ gameState'.score >= gameState.score
        /\ gameState'.score # gameState.score =>
             FireStep /\ Last(outcomes') = "hit"
        /\ gameState'.combo # gameState.combo => FireStep]_vars

\* C8 witness: two hits in a row.
ComboIsStreakReached ==
  /\ outcomes = <<"hit", "hit">>
  /\ gameState.combo = 2

\* A frame tick was taken in this step.
FrameStep == frames' = frames + 1

\* C9: after a frame tick no target, dying or not, is beyond the bounding
\* radius; the targets the tick removed are those its advance took beyond the
\* radius, and each is replaced by one freshly spawned target.
PrunedAndReplaced ==
  [][FrameStep =>
       LET gone == Ids(enemies) \ Ids(enemies')
           fresh == Ids(enemies') \ Ids(enemies)
       IN /\ \A k \in 1..Len(enemies') : Abs(enemies'[k].pos) <= BOUND_RADIUS
          /\ \A i \in 1..Len(enemies) :
               enemies[i].id \in gone <=>
                 Abs(IF enemies[i].isDying THEN enemies[i].pos
                     ELSE enemies[i].pos + enemies[i].vel) > BOUND_RADIUS
          /\ Cardinality(fresh) = Cardinality(gone)
          /\ Len(enemies') = Len(enemies)
          /\ \A k \in 1..Len(enemies') :
               enemies'[k].id \in fresh =>
                 enemies'[k].pos = SPAWN_RADIUS /\ ~enemies'[k].isDying]_vars

\* C9 witness: with no fire signal so far, a frame tick has replaced two of the
\* startup targets.
PrunedAndReplacedReached ==
  /\ outcomes = <<>>
  /\ frames >= 1
  /\ Len(enemies) = ENEMY_COUNT
  /\ Cardinality(Ids(enemies) \ (1..ENEMY_COUNT)) = 2

\* C10: a floating text starts at life 1.0 and loses 0.025 on every frame tick;
\* none is listed with a life at or below 0, so none is listed 40 frame ticks
\* after its creation.
VfxDecays ==
  \A k \in 1..Len(vfx) :
    /\ vfx[k].life = VFX_LIFE - VFX_DECAY * (frames - vfx[k].born)
    /\ vfx[k].life > 0
    /\ frames - vfx[k].born < (VFX_LIFE + VFX_DECAY - 1) \div VFX_DECAY

\* C10 witness: the text of a fire signal is gone after exactly 40 frame ticks.
VfxDecaysReached ==
  /\ Len(outcomes) = 1
  /\ vfx = <<>>
  /\ frames = 40

\* A detection result was processed in this step and threw.
ThrowStep == errors' = errors + 1

\* C11: a tick that throws leaves handDetected, the trigger flag, score, combo
\* and the target collection as they were; handDetected goes from true to
\* false only on a processed tick that does not throw.
ThrowRetainsState ==
  [][/\ ThrowStep => UNCHANGED <<gameState, isTriggeredRef, enemies>>
     /\ gameState.handDetected /\ ~gameState'.handDetected =>
          lastDetectionRef' = now /\ ~ThrowStep]_vars

\* C12: the trigger flag goes from true to false only in a step that processes
\* a result (not dropped), does not throw, has a hand present and logs a
\* distance at or above the threshold.
ReleasedOnlyByOpenHand ==
  [][isTriggeredRef /\ ~isTriggeredRef' =>
       /\ ~Dropped(now, lastDetectionRef)
       /\ lastDetectionRef' = now
       /\ ~ThrowStep
       /\ gameState'.handDetected
       /\ Len(ticks') = Len(ticks) + 1
       /\ Last(ticks').dist >= TRIGGER_THRESHOLD]_vars

\* C12 witness: one fire signal, MaxErrors results that threw and a later
\* pinch that found the flag set and did not fire; the flag is still set.
ReleasedOnlyByOpenHandReached ==
  /\ isTriggeredRef
  /\ errors = MaxErrors
  /\ Len(outcomes) = 1
  /\ Len(ticks) = 2
  /\ ticks[1].fired
  /\ ticks[2].dist < TRIGGER_THRESHOLD
  /\ ticks[2].flag
  /\ ~ticks[2].fired
  /\ lastDetectionRef - DETECTION_FREQ_MS >= 3 * TimeStep

\* A background request settled in this step.
ResolveStep == Len(resolutions') = Len(resolutions) + 1

\* C13: once the cleanup has run, a request that settles changes neither the
\* background image nor the generating indicator.
DiscardedAfterTeardown ==
  [][tornDown /\ ResolveStep => UNCHANGED <<bgImage, isGeneratingBg>>]_vars

\* C14: a request that settles, however it settles, leaves the indicator
\* cleared, so the indicator is clear whenever no request is in flight; a
\* request that fails leaves the background image as it was.
IndicatorCleared ==
  /\ [](requests = <<>> => ~isGeneratingBg)
  /\ [][ResolveStep =>
          /\ ~isGeneratingBg'
          /\ Last(resolutions').reply = "error" => bgImage' = bgImage]_vars

\* C14 witness: three requests have set the indicator and settled, one in each
\* way, the failed one last; the indicator is clear and the image is that of
\* the one that returned an image.
IndicatorClearedReached ==
  /\ Len(resolutions) = 3
  /\ {resolutions[k].reply : k \in 1..3} = Replies
  /\ resolutions[3].reply = "error"
  /\ requests = <<>>
  /\ ~isGeneratingBg
  /\ \E k \in 1..2 : resolutions[k].reply = "image" /\ bgImage = resolutions[k].n

\* The image of the last request in the log that returned one; 0 if none did.
RECURSIVE LastImage(_)
LastImage(log) ==
  IF log = <<>> THEN 0
  ELSE IF Last(log).reply = "image" THEN Last(log).n
  ELSE LastImage(SubSeq(log, 1, Len(log) - 1))

\* C15: the background is the image of the most recently settled request that
\* returned an image, whatever the order in which the requests were made.
LastResolvedWins == bgImage = LastImage(resolutions)

\* C15 witness: of two requests in flight the later one returned its image
\* first, and the earlier one has overwritten it.
LastResolvedWinsReached ==
  \E k \in 2..Len(resolutions) :
    /\ resolutions[k - 1].reply = "image"
    /\ resolutions[k].reply = "image"
    /\ resolutions[k].n < resolutions[k - 1].n
    /\ k = Len(resolutions)
    /\ bgImage = resolutions[k].n
    /\ bgImage < issued

\* C16: once the cleanup has run no frame callback is pending and no frame
\* tick is taken: no step ages or prunes a floating text, and no step moves a
\* target that stays listed.
NoFrameAfterTeardown ==
  /\ [](tornDown => rafPending = {})
  /\ [][tornDown =>
          /\ ~FrameStep
          /\ vfx' = vfx
          /\ \A i \in 1..Len(enemies), j \in 1..Len(enemies') :
               enemies'[j].id = enemies[i].id =>
                 enemies'[j].pos = enemies[i].pos]_vars

\* C16 witness: the cleanup ran with a frame tick still within the bounds; the
\* text of a hit is at full life and the removal callback of the hit has run.
NoFrameAfterTeardownReached ==
  /\ tornDown
  /\ frames < MaxFrames
  /\ outcomes = <<"hit">>
  /\ Len(vfx) = 1
  /\ vfx[1].life = VFX_LIFE
  /\ timers = <<>>
  /\ nextId > ENEMY_COUNT + 1

\* A removal callback ran in this step.
RemovalStep == Len(timers') = Len(timers) - 1

\* C17: right after a fire signal that hits, the hit target is listed and
\* flagged dying; a removal callback runs no earlier than its delay, removes
\* its target and adds exactly one fresh target; and a listed dying target is
\* eventually not listed.
RemovedAfterDelay ==
  /\ [][FireStep /\ Last(outcomes') = "hit" =>
          /\ Len(enemies') = Len(enemies)
          /\ enemies'[lastShot'.index].isDying
          /\ Last(timers').id = enemies'[lastShot'.index].id
          /\ Last(timers').due = now + REMOVAL_DELAY_MS]_vars
  /\ [][RemovalStep =>
          /\ now >= Head(timers).due
          /\ Head(timers).id \notin Ids(enemies')
          /\ Ids(enemies) \ Ids(enemies') \subseteq {Head(timers).id}
          /\ Cardinality(Ids(enemies') \ Ids(enemies)) = 1
          /\ Len(enemies') = Len(RemoveId(enemies, Head(timers).id)) + 1]_vars
  /\ \A id \in 1..(ENEMY_COUNT + MaxShots) :
       (\E i \in 1..Len(enemies) : enemies[i].id = id /\ enemies[i].isDying)
         ~> (id \notin Ids(enemies))

\* C17 witness: the first target was hit, stayed listed until its callback
\* came due, and has been replaced by one fresh target, with no frame tick.
RemovedAfterDelayReached ==
  /\ outcomes = <<"hit">>
  /\ frames = 0
  /\ timers = <<>>
  /\ now >= 2 * DETECTION_FREQ_MS + REMOVAL_DELAY_MS
  /\ Ids(enemies) = (2..ENEMY_COUNT) \cup {ENEMY_COUNT + 1}
  /\ \A i \in 1..Len(enemies) : ~enemies[i].isDying

\* C18: a frame tick moves every target that is not dying and stays listed by
\* exactly its velocity, leaves every dying target where it was and lists the
\* targets it spawned at their spawn point; no step changes the velocity, type
\* or point value of a listed target.
FrameAdvances ==
  [][\A i \in 1..Len(enemies), j \in 1..Len(enemies') :
       enemies'[j].id = enemies[i].id =>
         /\ enemies'[j].vel = enemies[i].vel
         /\ enemies'[j].type = enemies[i].type
         /\ enemies'[j].points = enemies[i].points
         /\ FrameStep =>
              /\ enemies'[j].pos =
                   IF enemies[i].isDying THEN enemies[i].pos
                   ELSE enemies[i].pos + enemies[i].vel
              /\ \A k \in 1..Len(enemies') :
                   enemies'[k].id \notin Ids(enemies) =>
                     enemies'[k].pos = SPAWN_RADIUS]_vars

\* C18 witness: one frame tick, taken after a hit and before its removal
\* callback, has left the dying target in place, moved another startup target
\* by its velocity and listed a fresh target at its spawn point.
FrameAdvancesReached ==
  LET n == FramesInside(Phantom) - FlightLead
  IN /\ frames = 1
     /\ outcomes = <<"hit">>
     /\ timers # <<>>
     /\ \E i, j, k \in 1..Len(enemies) :
          /\ enemies[i].isDying
          /\ enemies[i].pos = SPAWN_RADIUS + n * enemies[i].vel
          /\ ~enemies[j].isDying
          /\ enemies[j].id <= ENEMY_COUNT
          /\ enemies[j].pos = SPAWN_RADIUS + (n + 1) * enemies[j].vel
          /\ enemies[k].id > ENEMY_COUNT
          /\ enemies[k].pos = SPAWN_RADIUS

\* C19: a step that moves the last-processed timestamp moves it to the current
\* time, at least DETECTION_FREQ_MS after its old value; and while less than
\* that has passed since the last processed result no step changes gameState,
\* the trigger flag, the aim or the timestamp, fires, logs a tick or throws.
RateLimited ==
  [][/\ lastDetectionRef' # lastDetectionRef =>
          /\ lastDetectionRef' = now
          /\ lastDetectionRef' - lastDetectionRef >= DETECTION_FREQ_MS
     /\ now - lastDetectionRef < DETECTION_FREQ_MS =>
          /\ UNCHANGED <<gameState, isTriggeredRef, aim, aimInput,
                         lastDetectionRef, ticks>>
          /\ ~FireStep
          /\ ~ThrowStep]_vars

\* C19 witness: two results were processed exactly DETECTION_FREQ_MS apart, the
\* second a pinch, and the clock is now inside the interval after it.
RateLimitedReached ==
  /\ lastDetectionRef = 2 * DETECTION_FREQ_MS
  /\ now > lastDetectionRef
  /\ now - lastDetectionRef < DETECTION_FREQ_MS
  /\ gameState.handDetected
  /\ isTriggeredRef
  /\ Len(outcomes) = 1

\* A result with a well-formed hand was processed in this step.
HandStep ==
  /\ lastDetectionRef' # lastDetectionRef
  /\ gameState'.handDetected
  /\ ~ThrowStep

\* The direction after the first k listed targets have had their turn.
RECURSIVE Pulled(_, _, _, _)
Pulled(list, to, raw, k) ==
  IF k = 0 THEN raw
  ELSE LET sofar == Pulled(list, to, raw, k - 1)
       IN IF ~list[k].isDying /\ Within(sofar, to[k])
          THEN lerp(sofar, to[k])
          ELSE sofar

\* The targets that qualify: not dying and within the assist angle of the
\* direction as pulled by the targets listed before them.
Qualified(list, to, raw) ==
  {k \in 1..Len(list) :
     ~list[k].isDying /\ Within(Pulled(list, to, raw, k - 1), to[k])}

\* C20: on a processed hand tick the assisted direction is the raw direction
\* pulled, in list order, by every target that is not dying and is within the
\* assist angle of the direction as pulled so far; the assist flag is set
\* exactly when some target qualified.
AssistCompounds ==
  [][HandStep =>
       LET to == aimInput'.to
           raw == aimInput'.raw
       IN /\ Len(to) = Len(enemies)
          /\ aim'.final = Pulled(enemies, to, raw, Len(enemies))
          /\ aim'.found <=> Qualified(enemies, to, raw) # {}]_vars

\* C20 witness: with the first target dying since the fire signal, a later
\* tick found targets 1 and 2 near the aim and target 3 far from it.  The dying
\* target was skipped, target 2 pulled, and target 3, outside the assist angle
\* of the raw direction, qualified against the pulled one and pulled again;
\* with targets 2 and 3 in the other order the direction would differ, and it
\* is not the pull of the nearest target alone.
AssistCompoundsReached ==
  /\ frames = 0
  /\ outcomes = <<"hit">>
  /\ Len(timers) = 1
  /\ Len(ticks) = AimLog
  /\ ticks[1].fired
  /\ enemies[1].isDying
  /\ aimInput = [raw |-> Ahead, to |-> <<Near, Near, Far, Away>>]
  /\ ~Within(Ahead, Far)
  /\ Within(lerp(Ahead, Near), Far)
  /\ aim = [final |-> lerp(lerp(Ahead, Near), Far), found |-> TRUE]
  /\ aim.final # lerp(Ahead, Near)
  /\ aim.final # Pulled(enemies, <<Near, Far, Near, Away>>, Ahead, Len(enemies))

\* The type and point value the bands give a draw, in percent.
Banded(r) ==
  IF r < 10 THEN <<"phantom", 500>>
  ELSE IF 10 <= r /\ r < 25 THEN <<"racer", 250>>
  ELSE IF 25 <= r /\ r < 45 THEN <<"titan", 150>>
  ELSE <<"normal", 100>>

\* C21: every listed target has the type and the point value of the band its
\* draw fell in; a target is not dying in the step that lists it, nor before
\* any fire signal.
SpawnBands ==
  /\ [](\A i \in 1..Len(enemies) :
          <<enemies[i].type, enemies[i].points>> = Banded(enemies[i].rand))
  /\ [](outcomes = <<>> => \A i \in 1..Len(enemies) : ~enemies[i].isDying)
  /\ [][\A j \in 1..Len(enemies') :
          enemies'[j].id \notin Ids(enemies) => ~enemies'[j].isDying]_vars

\* C21 witness: the startup draws 0.09, 0.10, 0.24, 0.25 gave a phantom, a
\* racer, a racer and a titan; the phantom was hit and its removal callback
\* spawned a normal target from the draw 0.45.
SpawnBandsReached ==
  /\ outcomes = <<"hit">>
  /\ timers = <<>>
  /\ [i \in 1..Len(enemies) |-> enemies[i].rand] = <<10, 24, 25, 45>>
  /\ [i \in 1..Len(enemies) |-> enemies[i].type] =
       <<"racer", "racer", "titan", "normal">>
  /\ [i \in 1..Len(enemies) |-> enemies[i].points] = <<250, 250, 150, 100>>
  /\ enemies[4].id = ENEMY_COUNT + 1
  /\ gameState.score = 500

\* C22: at most one background request is in flight in every reachable state.
OneRequestInFlight == Len(requests) <= 1

====
